---- MODULE Spec2Model ----
(***************************************************************************)
(* Model of the `deadline` crate (src/src/lib.rs).                         *)
(*                                                                         *)
(* Fut wraps a condition closure; Fut::poll evaluates it once, completes   *)
(* when it is true and otherwise wakes its own task and reports Pending.   *)
(* deadline_inner races Fut against tokio's timeout: every poll of the     *)
(* race polls Fut first and consults the timer only when Fut is pending.   *)
(* The deadline! macro awaits deadline_inner and asserts that it is Ok,    *)
(* panicking with a message built from the condition's source text.        *)
(*                                                                         *)
(* Scheduling is the single-threaded cooperative one the tests run under   *)
(* (#[tokio::test]): a poll of a task is one indivisible turn, and the     *)
(* other task, the timer driver and the clock take their steps between     *)
(* turns.                                                                  *)
(***************************************************************************)
EXTENDS Integers, Sequences, FiniteSets, TLC

\* ------------------------------------------------------------------ bounds
MaxTime == 3       \* the clock runs over 0..MaxTime
MaxLimit == 2      \* wait_limit ranges over 0..MaxLimit
MaxX == 2          \* the shared counter ranges over 0..MaxX
MaxPolls == 2      \* polls that leave the race pending, per invocation
MaxCalls == 2      \* invocations in sequence
MaxText == 6       \* length of a condition's source text, in atoms

\* ------------------------------------------------------ the test scenario
\* The shared counter starts one below the value the condition compares it
\* with (41 and 42 in the tests; 0 and 1 here).
Target == 1
InitX == 0

VARIABLES
    now,        \* the clock
    x,          \* the caller-owned state the condition reads (AtomicI32)
    pc,         \* "idle" | "pending" | "resolved" | "panicked" (and
                \* "spinning": a poll that never returns; the code has none)
    cond,       \* the condition closure of the current invocation
    via,        \* "macro" (deadline!) or "bare" (deadline_inner awaited)
    text,       \* stringify!($condition), a sequence of atoms
    waitLimit,  \* wait_limit of the current invocation
    startTime,  \* the clock when the current invocation began
    deadlineAt, \* the instant the Sleep of the timeout is set to
    timer,      \* "none" | "registered" | "fired": the Sleep's timer entry
    woken,      \* a wake-up of the polling task is outstanding
    outcome,    \* "none" | "Completed" | "Elapsed": how the race ended
    result,     \* "none" | "Ok" | "Err": what deadline_inner returned
    lastEval,   \* "none" | "true" | "false": the latest condition result
    evals,      \* condition evaluations of the current invocation
    polls,      \* calls of Fut::poll of the current invocation
    calls,      \* invocations begun
    log,        \* one record per resolved invocation
    panicked,   \* the assertion of deadline! failed
    message,    \* the panic message, a sequence of atoms
    stableTrue, \* the condition is true, and has been since before the deadline
    everTrue,   \* the condition was true at some moment of the invocation
    trueAtCall, \* the condition was true when the invocation began
    early       \* the invocation resolved before startTime + waitLimit

vars == <<now, x, pc, cond, via, text, waitLimit, startTime, deadlineAt,
          timer, woken, outcome, result, lastEval, evals, polls, calls, log,
          panicked, message, stableTrue, everTrue, trueAtCall, early>>

\* --------------------------------------------------------- the conditions
Conds == {"always_true", "always_false", "shared"}

\* The closure the caller passes: `move || x == y` over constants (as in
\* it_times_out) or `move || x.load(Ordering::Relaxed) == y`.
Cond(c, v) ==
    CASE c = "always_true"  -> TRUE
      [] c = "always_false" -> FALSE
      [] OTHER              -> v = Target

\* ------------------------------------------------------- message building
IsWs(a) == a \in {" ", "\n"}

\* The pieces a condition's text is made of: the keyword, the empty
\* parameter list `||`, whitespace, and a token of the body.
Atoms == {"move", "||", " ", "\n", "x"}

RECURSIVE SplitWhitespace(_)
\* str::split_whitespace: the maximal runs of non-whitespace atoms.
SplitWhitespace(s) ==
    IF s = <<>> THEN <<>>
    ELSE IF IsWs(Head(s)) THEN SplitWhitespace(Tail(s))
    ELSE LET rest == SplitWhitespace(Tail(s))
         IN  IF Len(s) > 1 /\ ~IsWs(s[2])
             THEN <<(<<Head(s)>> \o Head(rest))>> \o Tail(rest)
             ELSE <<(<<Head(s)>>)>> \o rest

RECURSIVE Join(_)
\* [&str]::join(" ")
Join(words) ==
    IF words = <<>> THEN <<>>
    ELSE IF Len(words) = 1 THEN Head(words)
    ELSE Head(words) \o <<" ">> \o Join(Tail(words))

Normalized(s) == Join(SplitWhitespace(s))

MovePrefix == <<"move", " ", "||", " ">>

\* str::strip_prefix, with the macro's fallback to the unstripped text.
StripPrefix(s, p) ==
    IF Len(s) >= Len(p) /\ SubSeq(s, 1, Len(p)) = p
    THEN SubSeq(s, Len(p) + 1, Len(s))
    ELSE s

Description(t) == StripPrefix(Normalized(t), MovePrefix)

MsgHead == "the deadline has elapsed for condition: "

PanicMessage(t) == <<MsgHead>> \o Description(t)

\* stringify!($condition) for the closures of the scenario.
SourceText(c) ==
    CASE c = "always_true"  -> <<"move", " ", "||", "\n", "x">>
      [] c = "always_false" -> <<"move", " ", "||", " ", "x">>
      [] OTHER              -> <<"move", " ", "||", " ", "\n", "x">>

\* ------------------------------------------------------------ the futures
\* Mutant: Fut::poll reports Ready without looking at the condition.
FutPollAlwaysReady(c, v) == "Ready"

\* Fut::poll: Ready when the condition holds, Pending otherwise.
FutPoll(c, v) == IF Cond(c, v) THEN "Ready" ELSE "Pending"

\* Mutant: Fut::poll reports Pending without waking its task.
FutNeverWakes(c, v) == FALSE

\* Fut::poll calls cx.waker().wake_by_ref() exactly when it reports Pending.
FutWakes(c, v) == ~Cond(c, v)

\* Mutant: a false condition is evaluated a second time in the same poll.
EvalsInPollTwice(c, v) == IF Cond(c, v) THEN 1 ELSE 2

\* Fut::poll calls the condition (self.0()) once, whatever it returns.
EvalsInPoll(c, v) == 1

\* Mutant: Fut::poll loops on a false condition instead of returning.
PollSpins(c, v) == Cond(c, v)

\* Fut::poll returns to its caller after its one evaluation: there is no
\* loop and no await in it.
PollReturns(c, v) == TRUE

\* Mutant: a poll of the race resets the shared counter.
AfterPollReset(v) == InitX

\* The shared state after a poll of the race: Fut holds the condition as
\* &dyn Fn() -> bool and only calls it, the timeout never sees the state.
AfterPoll(v) == v

\* Mutant: the task's wake-up is served although the race has resolved.
RunnableAfterResolve(p, w) == p \in {"pending", "resolved"} /\ w

\* Mutant: the race is polled again whether or not it was woken or is over.
RunnableAlways(p, w) == p \in {"pending", "resolved"}

\* The scheduler polls the race when its task was woken and the race is
\* still awaited; once the timeout is Ready it is dropped with its Fut.
Runnable(p, w) == p = "pending" /\ w

\* The Sleep inside the timeout is Ready once its timer entry has fired.
DelayPoll(tm) == IF tm = "fired" THEN "Ready" ELSE "Pending"

\* Mutant: the delay is consulted before the value.
TimeoutPollDelayFirst(fut, delay) ==
    IF delay = "Ready" THEN "Elapsed"
    ELSE IF fut = "Ready" THEN "Completed"
    ELSE "Pending"

\* Mutant: the race ends only once the delay is over.
TimeoutPollWaitsOut(fut, delay) ==
    IF delay = "Ready"
    THEN (IF fut = "Ready" THEN "Completed" ELSE "Elapsed")
    ELSE "Pending"

\* Mutant: Fut is awaited without a timeout.
TimeoutPollNoTimer(fut, delay) ==
    IF fut = "Ready" THEN "Completed" ELSE "Pending"

\* One poll of timeout(wait_limit, Fut(&condition)): the value first, the
\* delay only when the value is pending.
TimeoutPoll(fut, delay) ==
    IF fut = "Ready" THEN "Completed"
    ELSE IF delay = "Ready" THEN "Elapsed"
    ELSE "Pending"

\* Mutant: the wait limit is dropped.
DeadlineNow(t, limit) == t

\* timeout(wait_limit, ..) sets its Sleep to the current instant plus
\* wait_limit.
Deadline(t, limit) == t + limit

\* A timer entry is due when the clock has reached its deadline.
Due(t, d) == t >= d

\* Mutant: the Sleep of the previous invocation is used again.
StaleTimer == timer

\* A new timeout holds a Sleep that is not registered with the driver yet.
NewTimer == "none"

\* The Sleep's timer entry as the delay's poll finds it: an unregistered
\* entry is registered by that poll, and fires at once (fire) when its
\* deadline is not in the driver's future.
TimerSeen(tm, fire) ==
    IF tm = "none" THEN (IF fire THEN "fired" ELSE "registered") ELSE tm

\* Mutant: deadline_inner unwraps the Result itself.
InnerResultUnwrap(o) == IF o = "Completed" THEN "Ok" ELSE "panic"

\* deadline_inner returns the timeout's Result unchanged: Ok(()) when the
\* race completed, Err(Elapsed) when it elapsed.
InnerResult(o) == IF o = "Completed" THEN "Ok" ELSE "Err"

\* Mutant: the assertion is inverted.
IsErr(r) == r = "Err"

\* Result::is_ok, the condition of the macro's assert!.
IsOk(r) == r = "Ok"

BoolStr(b) == IF b THEN "true" ELSE "false"

\* ------------------------------------------------------------------- Init
Init ==
    /\ now = 0
    /\ x = InitX
    /\ pc = "idle"
    /\ cond = "always_false"
    /\ via = "macro"
    /\ text = SourceText("always_false")
    /\ waitLimit = 0
    /\ startTime = 0
    /\ deadlineAt = 0
    /\ timer = "none"
    /\ woken = FALSE
    /\ outcome = "none"
    /\ result = "none"
    /\ lastEval = "none"
    /\ evals = 0
    /\ polls = 0
    /\ calls = 0
    /\ log = <<>>
    /\ panicked = FALSE
    /\ message = <<>>
    /\ stableTrue = FALSE
    /\ everTrue = FALSE
    /\ trueAtCall = FALSE
    /\ early = FALSE

\* ---------------------------------------------------------------- actions
\* What a poll of the race leaves behind, given the race's result `res` for
\* the invocation (c, limit, st): the poll either leaves the race pending or
\* resolves it, and deadline_inner then returns the Result to its caller.
Settle(res, c, limit, st) ==
    IF res = "Pending"
    THEN /\ pc' = (IF PollReturns(c, x) THEN "pending" ELSE "spinning")
         /\ outcome' = "none"
         /\ result' = "none"
         /\ log' = log
         /\ early' = FALSE
         /\ panicked' = panicked
    ELSE /\ outcome' = res
         /\ result' = InnerResult(res)
         /\ log' = Append(log, [cond |-> c, outcome |-> res])
         /\ early' = (now < st + limit)
         /\ IF InnerResult(res) \in {"Ok", "Err"}
            THEN pc' = "resolved" /\ panicked' = panicked
            ELSE pc' = "panicked" /\ panicked' = TRUE

\* The caller awaits deadline_inner(limit, c), directly or through
\* deadline!: the timeout is created and the race is polled for the first
\* time, all in the caller's current turn.
Start(limit, c, v, fire) ==
    /\ pc = "idle"
    /\ calls < MaxCalls
    /\ now + limit <= MaxTime
    /\ fire => Due(now, Deadline(now, limit))
    /\ LET fut  == FutPoll(c, x)
           seen == TimerSeen(NewTimer, fire)
           res  == TimeoutPoll(fut, DelayPoll(seen))
       IN  /\ cond' = c
           /\ via' = v
           /\ text' = SourceText(c)
           /\ waitLimit' = limit
           /\ startTime' = now
           /\ deadlineAt' = Deadline(now, limit)
           /\ calls' = calls + 1
           /\ evals' = EvalsInPoll(c, x)
           /\ polls' = 1
           /\ lastEval' = BoolStr(Cond(c, x))
           /\ woken' = FutWakes(c, x)
           /\ timer' = IF fut = "Ready" THEN NewTimer ELSE seen
           /\ everTrue' = Cond(c, x)
           /\ trueAtCall' = Cond(c, x)
           /\ stableTrue' = (Cond(c, x) /\ limit > 0)
           /\ Settle(res, c, limit, now)
    /\ x' = AfterPoll(x)
    /\ UNCHANGED <<now, message>>

\* The scheduler polls the woken task again: one more poll of the race.
Poll ==
    /\ Runnable(pc, woken)
    /\ LET fut == FutPoll(cond, x)
           res == TimeoutPoll(fut, DelayPoll(timer))
       IN  /\ polls < MaxPolls \/ res # "Pending"
           /\ evals' = evals + EvalsInPoll(cond, x)
           /\ polls' = polls + 1
           /\ lastEval' = BoolStr(Cond(cond, x))
           /\ woken' = FutWakes(cond, x)
           /\ Settle(res, cond, waitLimit, startTime)
    /\ x' = AfterPoll(x)
    /\ UNCHANGED <<now, cond, via, text, waitLimit, startTime, deadlineAt,
                   timer, calls, message, stableTrue, everTrue, trueAtCall>>

\* The timer driver's turn: a registered entry whose deadline has been
\* reached fires and wakes the task that waits on it.
TimerFire ==
    /\ pc = "pending"
    /\ timer = "registered"
    /\ Due(now, deadlineAt)
    /\ timer' = "fired"
    /\ woken' = TRUE
    /\ UNCHANGED <<now, x, pc, cond, via, text, waitLimit, startTime,
                   deadlineAt, outcome, result, lastEval, evals, polls, calls,
                   log, panicked, message, stableTrue, everTrue,
                   trueAtCall, early>>

\* Another task changes the shared state (x_clone.fetch_add(1, ..)). It
\* runs on the same thread, so only while no poll occupies it.
OtherTask ==
    /\ pc # "spinning"
    /\ x < MaxX
    /\ x' = x + 1
    /\ IF pc = "pending"
       THEN /\ everTrue' = (everTrue \/ Cond(cond, x'))
            /\ stableTrue' =
                 IF ~Cond(cond, x') THEN FALSE
                 ELSE IF Cond(cond, x) THEN stableTrue
                 ELSE now < startTime + waitLimit
       ELSE UNCHANGED <<everTrue, stableTrue>>
    /\ UNCHANGED <<now, pc, cond, via, text, waitLimit, startTime, deadlineAt,
                   timer, woken, outcome, result, lastEval, evals, polls,
                   calls, log, panicked, message, trueAtCall, early>>

\* Time passes.
Tick ==
    /\ now < MaxTime
    /\ now' = now + 1
    /\ UNCHANGED <<x, pc, cond, via, text, waitLimit, startTime, deadlineAt,
                   timer, woken, outcome, result, lastEval, evals, polls,
                   calls, log, panicked, message, stableTrue, everTrue,
                   trueAtCall, early>>

\* The invocation is over: the timeout and the Fut are dropped when
\* deadline_inner returns, and the caller goes on. (timer keeps the last
\* state of the dropped Sleep until the next timeout makes a new one.)
ReturnToCaller ==
    /\ pc' = "idle"
    /\ cond' = "always_false"
    /\ via' = "macro"
    /\ text' = SourceText("always_false")
    /\ waitLimit' = 0
    /\ startTime' = 0
    /\ deadlineAt' = 0
    /\ woken' = FALSE
    /\ outcome' = "none"
    /\ result' = "none"
    /\ lastEval' = "none"
    /\ evals' = 0
    /\ polls' = 0
    /\ stableTrue' = FALSE
    /\ everTrue' = FALSE
    /\ trueAtCall' = FALSE
    /\ early' = FALSE
    /\ UNCHANGED <<now, x, timer, calls, log, panicked, message>>

\* deadline!: assert!(deadline_inner(..).await.is_ok(), "the deadline has
\* elapsed for condition: {}", <description>).
MacroAssert ==
    /\ pc = "resolved"
    /\ via = "macro"
    /\ IF IsOk(result)
       THEN ReturnToCaller
       ELSE /\ pc' = "panicked"
            /\ panicked' = TRUE
            /\ message' = PanicMessage(text)
            /\ UNCHANGED <<now, x, cond, via, text, waitLimit, startTime,
                           deadlineAt, timer, woken, outcome, result,
                           lastEval, evals, polls, calls, log, stableTrue,
                           everTrue, trueAtCall, early>>

\* A caller that awaited deadline_inner itself receives the Result.
BareReturn ==
    /\ pc = "resolved"
    /\ via = "bare"
    /\ ReturnToCaller

StartAny ==
    \E limit \in 0..MaxLimit, c \in Conds, v \in {"macro", "bare"},
       fire \in BOOLEAN : Start(limit, c, v, fire)

Next ==
    \/ StartAny
    \/ Poll
    \/ TimerFire
    \/ OtherTask
    \/ Tick
    \/ MacroAssert
    \/ BareReturn

Spec == Init /\ [][Next]_vars

\* The scheduler polls a woken task, the driver fires due timers and the
\* clock advances.
FairSpec ==
    /\ Spec
    /\ WF_vars(Poll)
    /\ WF_vars(TimerFire)
    /\ WF_vars(Tick)

\* The scheduler is fair to every task: the other task gets its turns too.
FairAllSpec ==
    /\ FairSpec
    /\ WF_vars(OtherTask)

\* ------------------------------------------- the macro on arbitrary texts
\* stringify! renders the condition's tokens: a text that does not start
\* with whitespace and ends with the last token of the expression.
Texts ==
    {s \in UNION {[1..n -> Atoms] : n \in 1..MaxText} :
        ~IsWs(s[1]) /\ s[Len(s)] = "x"}

\* deadline!(limit, <text>) right after deadline_inner returned r.
InitMsg ==
    /\ text \in Texts
    /\ result \in {"Ok", "Err"}
    /\ outcome = (IF result = "Ok" THEN "Completed" ELSE "Elapsed")
    /\ now = 0
    /\ x = InitX
    /\ pc = "resolved"
    /\ cond = "always_false"
    /\ via = "macro"
    /\ waitLimit = 0
    /\ startTime = 0
    /\ deadlineAt = 0
    /\ timer = (IF result = "Ok" THEN "none" ELSE "fired")
    /\ woken = (result = "Err")
    /\ lastEval = (IF result = "Ok" THEN "true" ELSE "false")
    /\ evals = 1
    /\ polls = 1
    /\ calls = 1
    /\ log = <<[cond |-> "always_false", outcome |-> outcome]>>
    /\ panicked = FALSE
    /\ message = <<>>
    /\ stableTrue = FALSE
    /\ everTrue = (result = "Ok")
    /\ trueAtCall = (result = "Ok")
    /\ early = FALSE

NextMsg == MacroAssert

SpecMsg == InitMsg /\ [][NextMsg]_vars

\* ------------------------------------------------------------- properties
Resolved == pc \in {"resolved", "panicked"}

\* C1: a condition that becomes true, and stays true, strictly before the
\* deadline makes the invocation resolve as Completed, never as Elapsed,
\* whatever the other task, the timer and the clock did in between.
C1_TrueBeforeDeadlineCompletes ==
    (Resolved /\ stableTrue) => (outcome = "Completed" /\ result = "Ok")

C1_Witness ==
    /\ pc = "resolved" /\ cond = "shared" /\ stableTrue
    /\ polls > 1 /\ now >= startTime + waitLimit /\ outcome = "Completed"

C3_TrueAtCallCompletesAtOnce ==
    (calls > 0 /\ trueAtCall) =>
        /\ pc # "pending"
        /\ outcome = "Completed"
        /\ evals = 1
        /\ polls = 1

C3_Witness ==
    /\ pc = "resolved" /\ trueAtCall /\ cond = "shared" /\ waitLimit = 0
    /\ outcome = "Completed"

\* C4: the turn in which an evaluation of the condition returns true is the
\* turn that resolves the invocation as Completed, whether or not the timer
\* has fired.
C4_CompletesInSameTurn ==
    [][((evals' # evals \/ calls' # calls) /\ lastEval' = "true")
         => (pc' = "resolved" /\ outcome' = "Completed")]_vars

C4_Witness ==
    /\ pc = "resolved" /\ outcome = "Completed" /\ polls > 1
    /\ timer = "registered" /\ now < startTime + waitLimit

\* C5: when the timer has fired (or is due) in the turn in which the
\* condition evaluates to true, the invocation resolves as Completed.
C5_TieBreakCompleted ==
    (/\ Resolved
     /\ lastEval = "true"
     /\ (timer = "fired" \/ ~early))
        => outcome = "Completed"

C5_Witness ==
    /\ pc = "resolved" /\ lastEval = "true" /\ timer = "fired"
    /\ outcome = "Completed"

\* C6: every invocation eventually resolves, as Completed after a true
\* evaluation or as Elapsed after the timer fired, and as nothing else.
C6_EventuallyResolves ==
    /\ (pc = "pending") ~> (pc # "pending")
    /\ [](pc = "pending" => outcome = "none")
    /\ [](Resolved =>
            \/ outcome = "Completed" /\ lastEval = "true"
            \/ outcome = "Elapsed" /\ timer = "fired")

C6_Witness ==
    /\ pc = "resolved" /\ cond = "always_false" /\ outcome = "Elapsed"
    /\ polls = MaxPolls + 1

\* C7: deadline! panics exactly when deadline_inner resolved as Elapsed; on
\* Completed it returns without output, on Elapsed the panic message starts
\* with "the deadline has elapsed for condition: ".
C7_PanicsIffElapsed ==
    /\ [](panicked <=> pc = "panicked")
    /\ [](panicked => (via = "macro" /\ outcome = "Elapsed"
                       /\ message # <<>> /\ Head(message) = MsgHead))
    /\ [](~panicked => message = <<>>)
    /\ [][(pc = "resolved" /\ via = "macro" /\ pc' # pc) =>
             IF outcome = "Elapsed"
             THEN panicked' /\ pc' = "panicked"
             ELSE ~panicked' /\ pc' = "idle" /\ message' = <<>>]_vars

C7_Witness ==
    /\ panicked /\ calls = 2 /\ Head(message) = MsgHead
    /\ log[1].outcome = "Completed"

\* C8: deadline_inner hands a timeout to its caller as the value
\* Err(Elapsed), its only error, and does not panic; only deadline! panics.
C8_TimeoutIsAValue ==
    /\ pc = "resolved" =>
         (~panicked /\ result \in {"Ok", "Err"}
          /\ (result = "Err" <=> outcome = "Elapsed"))
    /\ panicked => via = "macro"
    /\ result \in {"none", "Ok", "Err"}

C8_Witness ==
    /\ pc = "idle" /\ ~panicked /\ log # <<>>
    /\ log[Len(log)].outcome = "Elapsed"

\* C9: in a sequence of invocations every always-true condition yields
\* Completed and every always-false condition yields Elapsed, no earlier
\* than its own deadline: nothing of an invocation reaches the next one.
C9_SequentialInvocations ==
    /\ \A i \in 1..Len(log) :
          /\ log[i].cond = "always_true" => log[i].outcome = "Completed"
          /\ log[i].cond = "always_false" => log[i].outcome = "Elapsed"
    /\ (Resolved /\ cond = "always_false") => ~early
    /\ (Resolved /\ cond = "always_true") => (polls = 1 /\ timer = "none")

C9_Witness ==
    /\ Len(log) = 2 /\ pc = "resolved" /\ waitLimit > 0
    /\ log[1].cond = "always_false" /\ log[2].cond = "always_false"
    /\ log[2].outcome = "Elapsed"

\* The description the specification promises: every run of whitespace is
\* one space, and a leading closure introducer (`move || ` or `|| `) is gone.
RECURSIVE CollapseWs(_)
CollapseWs(s) ==
    IF s = <<>> THEN <<>>
    ELSE IF IsWs(Head(s))
         THEN IF Len(s) > 1 /\ IsWs(s[2])
              THEN CollapseWs(Tail(s))
              ELSE <<" ">> \o CollapseWs(Tail(s))
         ELSE <<Head(s)>> \o CollapseWs(Tail(s))

BarePrefix == <<"||", " ">>

WithoutIntroducer(s) ==
    IF StripPrefix(s, MovePrefix) # s THEN StripPrefix(s, MovePrefix)
    ELSE StripPrefix(s, BarePrefix)

\* C10: on a timeout deadline! panics with "the deadline has elapsed for
\* condition: " followed by the condition's source text, whitespace runs
\* collapsed to one space and the closure-introducer prefix removed.
C10_MessageDescribesCondition ==
    panicked =>
        message = <<MsgHead>> \o WithoutIntroducer(CollapseWs(text))

\* C11: every call of Fut::poll evaluates the condition exactly once: the
\* evaluations of an invocation are as many as its polls.
C11_OneEvaluationPerPoll ==
    /\ evals = polls
    /\ (pc # "idle") => evals >= 1

C11_Witness ==
    /\ pc = "resolved" /\ cond = "shared" /\ polls = MaxPolls + 1
    /\ evals = polls

\* C12: a poll that finds the condition false has woken its own task before
\* it reports Pending, so an unresolved invocation always has a wake-up
\* outstanding, whether or not the timer is near.
C12_NoLostWakeup ==
    /\ pc = "pending" => woken
    /\ (pc # "idle" /\ lastEval = "false") => woken

C12_Witness ==
    /\ pc = "pending" /\ woken /\ timer = "registered"
    /\ ~Due(now, deadlineAt) /\ polls = MaxPolls

\* C13: the step that resolves an invocation as Elapsed has evaluated the
\* condition in that same poll and found it false, so Elapsed is never
\* reported without an evaluation, not even with wait_limit = 0.
C13_ElapsedAfterFreshFalse ==
    /\ [][(outcome' = "Elapsed" /\ outcome # "Elapsed") =>
            /\ lastEval' = "false"
            /\ ~Cond(cond', x)
            /\ evals' >= 1
            /\ (calls' = calls => evals' = evals + 1)]_vars
    /\ [](Resolved => evals >= 1)

C13_Witness ==
    /\ pc = "resolved" /\ outcome = "Elapsed" /\ waitLimit = 0
    /\ evals = 1 /\ lastEval = "false"

\* C14: once the race has resolved as Elapsed the condition is not
\* evaluated again by that invocation, although the last poll left a
\* wake-up of the task outstanding.
C14_NoEvaluationAfterElapsed ==
    /\ [][outcome = "Elapsed" => (evals' <= evals /\ polls' <= polls)]_vars
    /\ []((Resolved /\ outcome = "Elapsed") => woken)

C14_Witness ==
    /\ pc = "resolved" /\ outcome = "Elapsed" /\ woken
    /\ now > startTime + waitLimit /\ evals = polls

C16_SharedStateUntouched ==
    [][x' # x =>
         /\ evals' = evals /\ polls' = polls /\ calls' = calls
         /\ pc' = pc /\ timer' = timer /\ woken' = woken
         /\ outcome' = outcome /\ result' = result]_vars

C16_Witness ==
    /\ pc = "resolved" /\ cond = "shared" /\ polls = MaxPolls + 1
    /\ outcome = "Elapsed" /\ x = InitX

\* C17: the race resolves as Completed only in a step whose evaluation of
\* the condition returned true, and an always-false condition stays pending
\* for as long as the timer has not fired.
C17_CompletedOnlyWhenTrue ==
    /\ [][(outcome' = "Completed" /\ outcome # "Completed") =>
            (lastEval' = "true" /\ Cond(cond', x))]_vars
    /\ [](outcome = "Completed" => lastEval = "true")
    /\ []((pc # "idle" /\ cond = "always_false" /\ timer # "fired")
            => (pc = "pending" /\ outcome = "none" /\ result = "none"))

C17_Witness ==
    /\ pc = "pending" /\ cond = "always_false" /\ polls = MaxPolls
    /\ timer = "registered" /\ now > startTime

\* C18: a resolution as Completed is final: until the invocation has
\* returned to its caller the outcome and the Result stay, the condition is
\* not evaluated again, and the logged outcome is never rewritten, also when
\* another task makes the condition false again.
C18_CompletedIsFinal ==
    /\ [][(outcome = "Completed" /\ pc' # "idle") =>
            /\ outcome' = "Completed"
            /\ result' = "Ok"
            /\ evals' = evals
            /\ polls' = polls]_vars
    /\ [][Len(log') >= Len(log) /\ SubSeq(log', 1, Len(log)) = log]_vars

C18_Witness ==
    /\ pc = "resolved" /\ cond = "shared" /\ outcome = "Completed"
    /\ x # Target /\ ~Cond(cond, x)

====
